---- MODULE Spec2Model ----
(***************************************************************************)
(* Model of the ZLAN6042 relay tools:                                      *)
(*   Codex/Zlan6042_Codex.py      one-shot dispatcher + detached reopen    *)
(*   Codex/zlan6042_loopCodex.py  poll-verify loop                         *)
(* A token is a sequence of one-character strings, so that the Python      *)
(* string operations (isdigit, split, rstrip, int, float, str) are         *)
(* computed and not assumed.                                               *)
(***************************************************************************)
EXTENDS Integers, Sequences, FiniteSets, TLC

\* ------------------------------------------------------------ bounds ----
MaxArgs == 4
MaxInvocations == 2
MaxCycles == 3
MaxReadArgs == 3
MaxTokens == 3

\* ------------------------------------------------- program constants ----
\* IP = "192.168.1.200": an endpoint is modelled by its last octet.
IP == 200
DO_BASE == 16

\* zlan6042_loopCodex.py; times are in tenths of a second
POLL_SECONDS == 10
VERIFY_RETRIES == 3
VERIFY_RETRY_DELAY == 1
EXCEPTION_PAUSE == 5

\* ------------------------------------------------ Python str helpers ----
Digits == {"0", "1", "2", "3", "4", "5", "6", "7", "8", "9"}

DigitVal(c) ==
  CASE c = "0" -> 0 [] c = "1" -> 1 [] c = "2" -> 2 [] c = "3" -> 3
    [] c = "4" -> 4 [] c = "5" -> 5 [] c = "6" -> 6 [] c = "7" -> 7
    [] c = "8" -> 8 [] c = "9" -> 9

DigitChar(d) ==
  CASE d = 0 -> "0" [] d = 1 -> "1" [] d = 2 -> "2" [] d = 3 -> "3"
    [] d = 4 -> "4" [] d = 5 -> "5" [] d = 6 -> "6" [] d = 7 -> "7"
    [] d = 8 -> "8" [] d = 9 -> "9"

\* str.isdigit(): non-empty and every character a digit
isdigit(s) == Len(s) > 0 /\ \A k \in 1..Len(s) : s[k] \in Digits

RECURSIVE DigitsToNat(_)
DigitsToNat(s) ==
  IF s = <<>> THEN 0
  ELSE 10 * DigitsToNat(SubSeq(s, 1, Len(s) - 1)) + DigitVal(s[Len(s)])

RECURSIVE NatToDigits(_)
NatToDigits(n) ==
  IF n < 10 THEN <<DigitChar(n)>>
  ELSE NatToDigits(n \div 10) \o <<DigitChar(n % 10)>>

\* str.lower() on one character (the letters the vocabulary uses)
lower_char(c) ==
  CASE c = "A" -> "a" [] c = "D" -> "d" [] c = "E" -> "e" [] c = "R" -> "r"
    [] OTHER -> c

lower(s) == [k \in 1..Len(s) |-> lower_char(s[k])]

RECURSIVE lstrip(_)
lstrip(s) == IF s # <<>> /\ s[1] = " " THEN lstrip(Tail(s)) ELSE s

RECURSIVE rstrip(_)
rstrip(s) ==
  IF s # <<>> /\ s[Len(s)] = " " THEN rstrip(SubSeq(s, 1, Len(s) - 1)) ELSE s

\* str.strip()
strip(s) == rstrip(lstrip(s))

\* str.rstrip(","): removes every trailing comma
RECURSIVE rstrip_comma(_)
rstrip_comma(s) ==
  IF s # <<>> /\ s[Len(s)] = ","
  THEN rstrip_comma(SubSeq(s, 1, Len(s) - 1)) ELSE s

\* "," in s
has_comma(s) == \E k \in 1..Len(s) : s[k] = ","

FirstComma(s) == CHOOSE k \in 1..Len(s) : s[k] = "," /\ \A j \in 1..(k - 1) : s[j] # ","

\* s.split(",", 1) for s containing a comma: always two parts
split_comma(s) ==
  <<SubSeq(s, 1, FirstComma(s) - 1), SubSeq(s, FirstComma(s) + 1, Len(s))>>

\* s.startswith("all")
startswith_all(s) == Len(s) >= 3 /\ SubSeq(s, 1, 3) = <<"a", "l", "l">>

\* optional sign in front of the digits, as int() and float() accept it
Unsigned(s) == IF s # <<>> /\ s[1] \in {"+", "-"} THEN Tail(s) ELSE s

Negative(s) == s # <<>> /\ s[1] = "-"

\* int(s): ok = FALSE stands for ValueError
py_int(s) ==
  IF isdigit(Unsigned(strip(s)))
  THEN [ok |-> TRUE,
        val |-> IF Negative(strip(s)) THEN 0 - DigitsToNat(Unsigned(strip(s)))
                ELSE DigitsToNat(Unsigned(strip(s)))]
  ELSE [ok |-> FALSE, val |-> 0]

\* A float is [neg, whole, frac]: sign, integer part and the fraction's
\* digits without trailing zeros.  float(s) accepts [sign] digits [. digits];
\* exponents, inf and nan are not in the token alphabet.
RECURSIVE rstrip_zero(_)
rstrip_zero(s) ==
  IF s # <<>> /\ s[Len(s)] = "0"
  THEN rstrip_zero(SubSeq(s, 1, Len(s) - 1)) ELSE s

HasDot(s) == \E k \in 1..Len(s) : s[k] = "."

FirstDot(s) == CHOOSE k \in 1..Len(s) : s[k] = "." /\ \A j \in 1..(k - 1) : s[j] # "."

NoFloat == [ok |-> FALSE, neg |-> FALSE, whole |-> 0, frac |-> <<>>]

py_float(s) ==
  LET u == Unsigned(strip(s)) IN
  IF isdigit(u)
  THEN [ok |-> TRUE, neg |-> Negative(strip(s)), whole |-> DigitsToNat(u), frac |-> <<>>]
  ELSE IF HasDot(u)
       THEN LET w == SubSeq(u, 1, FirstDot(u) - 1)
                f == SubSeq(u, FirstDot(u) + 1, Len(u))
            IN IF (w = <<>> \/ isdigit(w)) /\ (f = <<>> \/ isdigit(f)) /\ (w # <<>> \/ f # <<>>)
               THEN [ok |-> TRUE, neg |-> Negative(strip(s)),
                     whole |-> DigitsToNat(w), frac |-> rstrip_zero(f)]
               ELSE NoFloat
       ELSE NoFloat

\* x <= 0 on floats
float_le_zero(x) == x.neg \/ (x.whole = 0 /\ x.frac = <<>>)

\* str(x) of a positive float: "5.0", "2.5"
str_float(x) ==
  (IF x.neg THEN <<"-">> ELSE <<>>) \o NatToDigits(x.whole) \o <<".">>
    \o (IF x.frac = <<>> THEN <<"0">> ELSE x.frac)

\* time.sleep(x): whole seconds of the model's clock that must pass
SleepTicks(x) == x.whole + (IF x.frac = <<>> THEN 0 ELSE 1)

\* ------------------------------------------------------- vocabulary ----
t_1 == <<"1">>
t_2 == <<"2">>
t_0 == <<"0">>
t_4 == <<"4">>
t_5 == <<"5">>
t_7c == <<"7", ",">>
t_300 == <<"3", "0", "0">>
t_1c5 == <<"1", ",", "5">>
t_all == <<"a", "l", "l">>
t_allc5 == <<"a", "l", "l", ",", "5">>
t_allx == <<"a", "l", "l", "x">>
t_open == <<"o", "p", "e", "n">>
t_closed == <<"c", "l", "o", "s", "e", "d">>
t_read == <<"r", "e", "a", "d">>
t_READ == <<"R", "E", "A", "D">>
t_di == <<"d", "i">>
t_ai == <<"a", "i">>
t_ai1 == <<"a", "i", "1">>
t_ai2 == <<"a", "i", "2">>
t_ai3 == <<"a", "i", "3">>
t_x == <<"x">>

t_allc2 == <<"a", "l", "l", ",", "2">>

t_1c2 == <<"1", ",", "2">>

t_3 == <<"3">>

t_7 == <<"7">>

RelayVocab == {t_1, t_2, t_0, t_5, t_1c5, t_all, t_allc5, t_allx, t_open, t_closed}

ReadVocab == {t_di, t_ai, t_ai1, t_ai3, t_read, t_READ, t_1, t_4, t_5, t_7c, t_300, t_x}

SeqsUpTo(S, n) == UNION {[1..k -> S] : k \in 0..n}

ArgLists == SeqsUpTo(RelayVocab, MaxArgs) \cup SeqsUpTo(ReadVocab, MaxReadArgs)

\* relay commands over channel, duration and endpoint tokens without commas
CommandVocab == {t_1, t_3, t_5, t_7, t_all, t_open, t_closed}

Commands == SeqsUpTo(CommandVocab, MaxTokens)

\* commands of the timed-close scenarios, with one command of every other branch
TimedCommands ==
  { <<t_allc5, t_closed>>, <<t_allc2, t_closed>>, <<t_all, t_5, t_closed>>,
    <<t_1c5, t_closed>>, <<t_ai, t_read>>, <<t_di, t_1, t_read>> }

\* a timed close, and the untimed commands issued after it against the same device
RaceFirst ==
  { <<t_1c2, t_closed>>, <<t_allc2, t_closed>>, <<t_1c2, t_closed, t_1c2, t_closed>> }

RaceLater == { <<t_1, t_closed>>, <<t_2, t_closed>> }

\* ------------------------------------------------------ pure parsing ----
\* mutant: the override threshold is ">= 4" instead of "> 4"
parse_ip_suffix_and_shift_Ge4(raw) ==
  LET keep == [exit |-> FALSE, ip |-> IP, rest |-> raw] IN
  IF raw = <<>> THEN keep
  ELSE LET token_raw == rstrip_comma(strip(raw[1])) IN
       IF isdigit(token_raw)
       THEN LET suffix == py_int(token_raw).val IN
            IF suffix < 0 \/ suffix > 255
            THEN [exit |-> TRUE, ip |-> IP, rest |-> raw]
            ELSE IF suffix >= 4
                 THEN [exit |-> FALSE, ip |-> suffix, rest |-> Tail(raw)]
                 ELSE keep
       ELSE keep

\* parse_ip_suffix_and_shift: exit = TRUE stands for SystemExit (line 104)
parse_ip_suffix_and_shift(raw) ==
  LET keep == [exit |-> FALSE, ip |-> IP, rest |-> raw] IN
  IF raw = <<>> THEN keep
  ELSE LET token_raw == rstrip_comma(strip(raw[1])) IN
       IF isdigit(token_raw)
       THEN LET suffix == py_int(token_raw).val IN
            IF suffix < 0 \/ suffix > 255
            THEN [exit |-> TRUE, ip |-> IP, rest |-> raw]
            ELSE IF suffix > 4
                 THEN [exit |-> FALSE, ip |-> suffix, rest |-> Tail(raw)]
                 ELSE keep
       ELSE keep

\* duration_seconds: <<>> is None, <<x>> is the float x
\* The all-relays branch up to its first write (lines 206-233).
\* line = 0: validated; otherwise the line that raises Syntax Violation.
all_form(raw) ==
  LET bad(n) == [line |-> n, dur |-> <<>>, closed |-> FALSE]
      comma == has_comma(raw[1])
      spaced == ~comma /\ Len(raw) >= 3 /\ raw[1] = t_all /\ isdigit(raw[2])
      parts == split_comma(raw[1])
      f == IF comma THEN py_float(parts[2]) ELSE py_float(raw[2])
      dur == IF comma \/ spaced THEN <<f>> ELSE <<>>
      state_token == IF spaced THEN raw[3] ELSE raw[2]
  IN IF Len(raw) < 2 THEN bad(208)
     ELSE IF comma /\ parts[1] # t_all THEN bad(214)
     ELSE IF comma /\ ~f.ok THEN bad(218)
     ELSE IF spaced /\ ~f.ok THEN bad(224)
     ELSE IF state_token \notin {t_open, t_closed} THEN bad(227)
     ELSE IF dur # <<>> /\ float_le_zero(f) THEN bad(230)
     ELSE IF dur # <<>> /\ state_token # t_closed THEN bad(232)
     ELSE [line |-> 0, dur |-> dur, closed |-> (state_token = t_closed)]

\* mutant: the check of line 280-281 (duration only with "closed") is missing
group_at_NoOpenCheck(raw, i) ==
  LET bad(n) == [line |-> n, relay_num |-> 0, dur |-> <<>>, closed |-> FALSE, next |-> i]
      relay_arg == raw[i + 1]
      comma == has_comma(relay_arg)
      parts == split_comma(relay_arg)
      r == IF comma THEN py_int(parts[1]) ELSE py_int(relay_arg)
      spaced == ~comma /\ i + 2 < Len(raw) /\ isdigit(raw[i + 2])
      f == IF comma THEN py_float(parts[2]) ELSE py_float(raw[i + 2])
      dur == IF comma \/ spaced THEN <<f>> ELSE <<>>
      state_arg == IF spaced THEN raw[i + 3] ELSE raw[i + 2]
      next == IF spaced THEN i + 3 ELSE i + 2
  IN IF i + 1 >= Len(raw) THEN bad(243)
     ELSE IF comma /\ ~r.ok THEN bad(252)
     ELSE IF comma /\ ~f.ok THEN bad(256)
     ELSE IF ~comma /\ ~r.ok THEN bad(263)
     ELSE IF spaced /\ ~f.ok THEN bad(269)
     ELSE IF state_arg \notin {t_open, t_closed} THEN bad(276)
     ELSE IF dur # <<>> /\ float_le_zero(f) THEN bad(279)
     ELSE IF r.val < 1 \/ r.val > 4 THEN bad(283)
     ELSE [line |-> 0, relay_num |-> r.val, dur |-> dur,
           closed |-> (state_arg = t_closed), next |-> next]

\* mutant: the duration lookahead asks for two more tokens after the digits
group_at_LateLookahead(raw, i) ==
  LET bad(n) == [line |-> n, relay_num |-> 0, dur |-> <<>>, closed |-> FALSE, next |-> i]
      relay_arg == raw[i + 1]
      comma == has_comma(relay_arg)
      parts == split_comma(relay_arg)
      r == IF comma THEN py_int(parts[1]) ELSE py_int(relay_arg)
      spaced == ~comma /\ i + 3 < Len(raw) /\ isdigit(raw[i + 2])
      f == IF comma THEN py_float(parts[2]) ELSE py_float(raw[i + 2])
      dur == IF comma \/ spaced THEN <<f>> ELSE <<>>
      state_arg == IF spaced THEN raw[i + 3] ELSE raw[i + 2]
      next == IF spaced THEN i + 3 ELSE i + 2
  IN IF i + 1 >= Len(raw) THEN bad(243)
     ELSE IF comma /\ ~r.ok THEN bad(252)
     ELSE IF comma /\ ~f.ok THEN bad(256)
     ELSE IF ~comma /\ ~r.ok THEN bad(263)
     ELSE IF spaced /\ ~f.ok THEN bad(269)
     ELSE IF state_arg \notin {t_open, t_closed} THEN bad(276)
     ELSE IF dur # <<>> /\ float_le_zero(f) THEN bad(279)
     ELSE IF dur # <<>> /\ state_arg # t_closed THEN bad(281)
     ELSE IF r.val < 1 \/ r.val > 4 THEN bad(283)
     ELSE [line |-> 0, relay_num |-> r.val, dur |-> dur,
           closed |-> (state_arg = t_closed), next |-> next]

\* One group of the relay-pair loop, starting at the 0-based index i
\* (lines 241-283).  line = 0: validated, the write at line 284 is next.
group_at(raw, i) ==
  LET bad(n) == [line |-> n, relay_num |-> 0, dur |-> <<>>, closed |-> FALSE, next |-> i]
      relay_arg == raw[i + 1]
      comma == has_comma(relay_arg)
      parts == split_comma(relay_arg)
      r == IF comma THEN py_int(parts[1]) ELSE py_int(relay_arg)
      spaced == ~comma /\ i + 2 < Len(raw) /\ isdigit(raw[i + 2])
      f == IF comma THEN py_float(parts[2]) ELSE py_float(raw[i + 2])
      dur == IF comma \/ spaced THEN <<f>> ELSE <<>>
      state_arg == IF spaced THEN raw[i + 3] ELSE raw[i + 2]
      next == IF spaced THEN i + 3 ELSE i + 2
  IN IF i + 1 >= Len(raw) THEN bad(243)
     ELSE IF comma /\ ~r.ok THEN bad(252)
     ELSE IF comma /\ ~f.ok THEN bad(256)
     ELSE IF ~comma /\ ~r.ok THEN bad(263)
     ELSE IF spaced /\ ~f.ok THEN bad(269)
     ELSE IF state_arg \notin {t_open, t_closed} THEN bad(276)
     ELSE IF dur # <<>> /\ float_le_zero(f) THEN bad(279)
     ELSE IF dur # <<>> /\ state_arg # t_closed THEN bad(281)
     ELSE IF r.val < 1 \/ r.val > 4 THEN bad(283)
     ELSE [line |-> 0, relay_num |-> r.val, dur |-> dur,
           closed |-> (state_arg = t_closed), next |-> next]

\* main, lines 171, 181, 192, 206, 238: the grammar branch taken for a body
branch(raw) ==
  IF Len(raw) = 2 /\ raw[1] \in {t_ai1, t_ai2} /\ raw[2] = t_read THEN "ai1"
  ELSE IF Len(raw) = 2 /\ raw[1] = t_ai /\ raw[2] = t_read THEN "ai"
  ELSE IF Len(raw) = 3 /\ raw[1] = t_di /\ raw[3] = t_read THEN "di"
  ELSE IF startswith_all(raw[1]) THEN "all"
  ELSE "pairs"

\* the groups the relay-pair loop accepts from index i on, up to the first
\* group it rejects
RECURSIVE relay_pairs(_, _)
relay_pairs(raw, i) ==
  IF i >= Len(raw) THEN <<>>
  ELSE IF group_at(raw, i).line # 0 THEN <<>>
  ELSE <<group_at(raw, i)>> \o relay_pairs(raw, group_at(raw, i).next)

\* -------------------------------------------------------------- state ----
VARIABLES
  args,      \* argv of the current invocation (args.args)
  pc,        \* position of the one-shot dispatcher in main()
  ip_addr,   \* endpoint resolved by parse_ip_suffix_and_shift
  raw_args,  \* command body after the endpoint override
  loc,       \* locals of main(): i, relay, relay_num, desired state, duration
  outcome,   \* how the invocation ended: none, ok, syntax, connect_error, transport_error
  vline,     \* source line that raised Syntax Violation (0: none)
  session,   \* ModbusTcpClient c: none, created, connected, closed
  calls,     \* external calls issued by the invocation, in order
  seen,      \* 0-based start indexes of the groups the relay-pair loop handled
  units,     \* detached reopen processes started by schedule_reopen
  coils,     \* device coils, per endpoint and coil address
  inv,       \* number of the current invocation
  hist,      \* finished invocations
  lpc,          \* position of the poll-verify loop in its main()
  toggle_state, \* global toggle_state
  error_count,  \* global error_count
  next_poll,    \* next_poll, in tenths of a second
  now,          \* time.time() at its last reading, in tenths of a second
  lsession,     \* the loop's ModbusTcpClient c: none, created, connected, closed
  cycle,        \* number of cycles started
  cyc,          \* the current cycle: write index, verify attempt, last read-back, calls
  summary       \* error counts printed by the "Stopped." line (line 169)

lvars == <<lpc, toggle_state, error_count, next_poll, now, lsession, cycle, cyc, summary>>

vars == <<args, pc, ip_addr, raw_args, loc, outcome, vline, session, calls, seen, units, coils, inv, hist,
          lpc, toggle_state, error_count, next_poll, now, lsession, cycle, cyc, summary>>

dvars == <<args, pc, ip_addr, raw_args, loc, outcome, vline, session, calls, seen, units, coils, inv, hist>>

\* bookkeeping of one cycle; base is error_count when the cycle started and
\* slept the time spent in time.sleep during the cycle
\* reads are the read-backs of verify_expected, actual its second return value
\* (<<>> until it returns); prev is how the previous cycle ended and
\* pace_slept the time.sleep issued at line 164
NoCycle == [k |-> 0, attempt |-> 0, last |-> <<>>, verified |-> FALSE, base |-> 0, slept |-> 0, calls |-> <<>>,
            reads |-> <<>>, actual |-> <<>>, prev |-> "none", pace_slept |-> 0,
            poll_before |-> 0, read_at |-> 0, sleep_for |-> 0]

\* the poll-verify loop before its main() runs (lines 26-27)
LoopFresh ==
  /\ lpc = "start"
  /\ toggle_state = FALSE
  /\ error_count = 0
  /\ next_poll = 0
  /\ now = 0
  /\ lsession = "none"
  /\ cycle = 0
  /\ cyc = NoCycle
  /\ summary = <<>>

Addrs == DO_BASE..(DO_BASE + 3)

Endpoints == {parse_ip_suffix_and_shift(<<t>>).ip : t \in RelayVocab \cup ReadVocab \cup CommandVocab}

\* write_coil(DO_BASE + (ch - 1), state) applied to one device
write_do(dev, ch_1_to_4, state) == [dev EXCEPT ![DO_BASE + (ch_1_to_4 - 1)] = state]

\* read_coils(DO_BASE, count=4).bits[:4]
read_do(dev) == [k \in 1..4 |-> dev[DO_BASE + (k - 1)]]

Call(op, addr, val, ok, at) == [op |-> op, addr |-> addr, val |-> val, ok |-> ok, at |-> at, bits |-> <<>>]

NoLoc == [i |-> 0, at |-> 0, relay |-> 0, relay_num |-> 0, closed |-> FALSE, dur |-> <<>>, all |-> FALSE]

FreshInvocation ==
  /\ pc = "start"
  /\ ip_addr = IP
  /\ raw_args = <<>>
  /\ loc = NoLoc
  /\ outcome = "none"
  /\ vline = 0
  /\ session = "none"
  /\ calls = <<>>
  /\ seen = {}

Init ==
  /\ args \in ArgLists
  /\ FreshInvocation
  /\ units = <<>>
  /\ coils = [e \in Endpoints |-> [a \in Addrs |-> FALSE]]
  /\ inv = 1
  /\ hist = <<>>
  /\ LoopFresh

\* ------------------------------------------------ one-shot dispatcher ----
\* raise SystemExit("Syntax Violation") before the try block: no finally
ExitEarly(n) ==
  /\ outcome' = "syntax"
  /\ vline' = n
  /\ pc' = "done"

\* raise SystemExit("Syntax Violation") inside the try block: finally runs
Violation(n) ==
  /\ outcome' = "syntax"
  /\ vline' = n
  /\ pc' = "finally"

\* main, lines 156-161
ParseArgs ==
  /\ pc = "start"
  /\ LET lowered == [k \in 1..Len(args) |-> lower(strip(args[k]))]
         r == parse_ip_suffix_and_shift(lowered)
     IN IF args = <<>> THEN ExitEarly(157) /\ UNCHANGED <<ip_addr, raw_args>>
        ELSE IF r.exit THEN ExitEarly(104) /\ UNCHANGED <<ip_addr, raw_args>>
        ELSE IF r.rest = <<>>
             THEN ExitEarly(161) /\ ip_addr' = r.ip /\ raw_args' = r.rest
             ELSE /\ pc' = "connect"
                  /\ ip_addr' = r.ip
                  /\ raw_args' = r.rest
                  /\ UNCHANGED <<outcome, vline>>
  /\ UNCHANGED <<args, loc, session, calls, seen, units, coils, inv, hist>>
  /\ UNCHANGED lvars

\* main, lines 166-168
Connect ==
  /\ pc = "connect"
  /\ \E ok \in BOOLEAN :
       /\ calls' = Append(calls, Call("connect", 0, FALSE, ok, 0))
       /\ IF ok
          THEN session' = "connected" /\ pc' = "dispatch" /\ UNCHANGED outcome
          ELSE session' = "created" /\ pc' = "done" /\ outcome' = "connect_error"
  /\ UNCHANGED <<args, ip_addr, raw_args, loc, vline, seen, units, coils, inv, hist>>
  /\ UNCHANGED lvars

\* main, lines 171-233 and 239: choice of the grammar branch, up to its first call
Dispatch ==
  /\ pc = "dispatch"
  /\ LET commas == \E k \in 1..Len(raw_args) : has_comma(raw_args[k])
         di == py_int(raw_args[2])
         a == all_form(raw_args)
         b == branch(raw_args)
     IN IF b = "ai1"
        THEN IF commas THEN Violation(173) /\ UNCHANGED loc
             ELSE pc' = "ai_only" /\ UNCHANGED <<loc, outcome, vline>>
        ELSE IF b = "ai"
        THEN IF commas THEN Violation(183) /\ UNCHANGED loc
             ELSE pc' = "ai_only" /\ UNCHANGED <<loc, outcome, vline>>
        ELSE IF b = "di"
        THEN IF commas THEN Violation(194) /\ UNCHANGED loc
             ELSE IF ~di.ok THEN Violation(198) /\ UNCHANGED loc
             ELSE IF di.val < 1 \/ di.val > 4 THEN Violation(200) /\ UNCHANGED loc
             ELSE pc' = "di_only" /\ UNCHANGED <<loc, outcome, vline>>
        ELSE IF b = "all"
        THEN IF a.line # 0 THEN Violation(a.line) /\ UNCHANGED loc
             ELSE /\ pc' = "all_write"
                  /\ loc' = [NoLoc EXCEPT !.relay = 1, !.closed = a.closed, !.dur = a.dur, !.all = TRUE]
                  /\ UNCHANGED <<outcome, vline>>
        ELSE pc' = "group" /\ UNCHANGED <<loc, outcome, vline>>
  /\ UNCHANGED <<args, ip_addr, raw_args, session, calls, seen, units, coils, inv, hist>>
  /\ UNCHANGED lvars

\* mutant: the RuntimeError of must_ok is swallowed and main goes on to the report
Failed_Swallow(call) ==
  /\ calls' = Append(calls, call)
  /\ outcome' = outcome
  /\ pc' = "read_do"

\* a transport call that raised RuntimeError in must_ok: finally runs
Failed(call) ==
  /\ calls' = Append(calls, call)
  /\ outcome' = "transport_error"
  /\ pc' = "finally"

\* main, lines 174-179 and 184-190
ReadAiOnly ==
  /\ pc = "ai_only"
  /\ \E ok \in BOOLEAN :
       IF ok
       THEN /\ calls' = Append(calls, Call("read_ai", 0, FALSE, TRUE, 0))
            /\ outcome' = "ok"
            /\ pc' = "finally"
       ELSE Failed(Call("read_ai", 0, FALSE, FALSE, 0))
  /\ UNCHANGED <<args, ip_addr, raw_args, loc, vline, session, seen, units, coils, inv, hist>>
  /\ UNCHANGED lvars

\* main, lines 201-204
ReadDiOnly ==
  /\ pc = "di_only"
  /\ \E ok \in BOOLEAN :
       IF ok
       THEN /\ calls' = Append(calls, Call("read_di", 0, FALSE, TRUE, 0))
            /\ outcome' = "ok"
            /\ pc' = "finally"
       ELSE Failed(Call("read_di", 0, FALSE, FALSE, 0))
  /\ UNCHANGED <<args, ip_addr, raw_args, loc, vline, session, seen, units, coils, inv, hist>>
  /\ UNCHANGED lvars

\* main, lines 234-236: one iteration of "for relay in range(1, 5)"
WriteAll ==
  /\ pc = "all_write"
  /\ \E ok \in BOOLEAN :
       LET c == Call("write", DO_BASE + (loc.relay - 1), loc.closed, ok, 0) IN
       IF ok
       THEN /\ calls' = Append(calls, c)
            /\ coils' = [coils EXCEPT ![ip_addr] = write_do(@, loc.relay, loc.closed)]
            /\ loc' = [loc EXCEPT !.relay = @ + 1]
            /\ pc' = IF loc.relay < 4 THEN "all_write"
                     ELSE IF loc.dur # <<>> THEN "schedule" ELSE "read_do"
            /\ UNCHANGED outcome
       ELSE Failed(c) /\ UNCHANGED <<coils, loc>>
  /\ UNCHANGED <<args, ip_addr, raw_args, vline, session, seen, units, inv, hist>>
  /\ UNCHANGED lvars

\* main, lines 240-283: loop test and validation of the next group
ParseGroup ==
  /\ pc = "group"
  /\ IF loc.i >= Len(raw_args)
     THEN pc' = "read_do" /\ UNCHANGED <<loc, outcome, vline, seen>>
     ELSE LET g == group_at(raw_args, loc.i) IN
          /\ seen' = seen \cup {loc.i}
          /\ IF g.line # 0 THEN Violation(g.line) /\ UNCHANGED loc
             ELSE /\ loc' = [loc EXCEPT !.i = g.next, !.at = loc.i, !.relay_num = g.relay_num,
                                        !.closed = g.closed, !.dur = g.dur]
                  /\ pc' = "write"
                  /\ UNCHANGED <<outcome, vline>>
  /\ UNCHANGED <<args, ip_addr, raw_args, session, calls, units, coils, inv, hist>>
  /\ UNCHANGED lvars

\* mutant: a relay already written by an earlier group is not written again
WriteGroup_SkipRepeated ==
  /\ pc = "write"
  /\ \E ok \in BOOLEAN :
       LET c == Call("write", DO_BASE + (loc.relay_num - 1), loc.closed, ok, loc.at) IN
       IF \E k \in 1..Len(calls) : calls[k].op = "write" /\ calls[k].addr = c.addr
       THEN /\ pc' = IF loc.dur # <<>> THEN "schedule" ELSE "group"
            /\ UNCHANGED <<calls, coils, outcome>>
       ELSE IF ok
       THEN /\ calls' = Append(calls, c)
            /\ coils' = [coils EXCEPT ![ip_addr] = write_do(@, loc.relay_num, loc.closed)]
            /\ pc' = IF loc.dur # <<>> THEN "schedule" ELSE "group"
            /\ UNCHANGED outcome
       ELSE Failed(c) /\ UNCHANGED coils
  /\ UNCHANGED <<args, ip_addr, raw_args, loc, vline, session, seen, units, inv, hist>>
  /\ UNCHANGED lvars

\* main, lines 284-285
WriteGroup ==
  /\ pc = "write"
  /\ \E ok \in BOOLEAN :
       LET c == Call("write", DO_BASE + (loc.relay_num - 1), loc.closed, ok, loc.at) IN
       IF ok
       THEN /\ calls' = Append(calls, c)
            /\ coils' = [coils EXCEPT ![ip_addr] = write_do(@, loc.relay_num, loc.closed)]
            /\ pc' = IF loc.dur # <<>> THEN "schedule" ELSE "group"
            /\ UNCHANGED outcome
       ELSE Failed(c) /\ UNCHANGED coils
  /\ UNCHANGED <<args, ip_addr, raw_args, loc, vline, session, seen, units, inv, hist>>
  /\ UNCHANGED lvars

\* the process started by subprocess.Popen, with its argv
NewUnit(ip, relay_arg, delay_str, at) ==
  [ip |-> ip, relay_arg |-> relay_arg, delay_str |-> delay_str, at |-> at, by |-> inv,
   pc |-> "spawned", remaining |-> 0, slept |-> 0, todo |-> <<>>, session |-> "none", calls |-> <<>>,
   raised |-> FALSE]

\* mutant: a new reopen replaces the reopens still pending
ScheduleReopen_Replace ==
  /\ pc = "schedule"
  /\ units' = <<NewUnit(ip_addr,
                        IF loc.all THEN t_all ELSE NatToDigits(loc.relay_num),
                        str_float(loc.dur[1]),
                        loc.at)>>
  /\ calls' = Append(calls, Call("schedule", 0, FALSE, TRUE, loc.at))
  /\ pc' = IF loc.all THEN "read_do" ELSE "group"
  /\ UNCHANGED <<args, ip_addr, raw_args, loc, outcome, vline, session, seen, coils, inv, hist>>
  /\ UNCHANGED lvars

\* schedule_reopen, called at lines 237 and 286
ScheduleReopen ==
  /\ pc = "schedule"
  /\ units' = Append(units,
        NewUnit(ip_addr,
                IF loc.all THEN t_all ELSE NatToDigits(loc.relay_num),
                str_float(loc.dur[1]),
                loc.at))
  /\ calls' = Append(calls, Call("schedule", 0, FALSE, TRUE, loc.at))
  /\ pc' = IF loc.all THEN "read_do" ELSE "group"
  /\ UNCHANGED <<args, ip_addr, raw_args, loc, outcome, vline, session, seen, coils, inv, hist>>
  /\ UNCHANGED lvars

\* mutant: the report is made from the relay states alone, without read_ai
ReadDo_NoAnalog ==
  /\ pc = "read_do"
  /\ \E ok \in BOOLEAN :
       IF ok
       THEN /\ calls' = Append(calls, [Call("read_do", 0, FALSE, TRUE, 0) EXCEPT !.bits = read_do(coils[ip_addr])])
            /\ pc' = "finally"
            /\ outcome' = "ok"
       ELSE Failed(Call("read_do", 0, FALSE, FALSE, 0))
  /\ UNCHANGED <<args, ip_addr, raw_args, loc, vline, session, seen, units, coils, inv, hist>>
  /\ UNCHANGED lvars

\* main, line 288
ReadDo ==
  /\ pc = "read_do"
  /\ \E ok \in BOOLEAN :
       IF ok
       THEN /\ calls' = Append(calls, [Call("read_do", 0, FALSE, TRUE, 0) EXCEPT !.bits = read_do(coils[ip_addr])])
            /\ pc' = "read_ai"
            /\ UNCHANGED outcome
       ELSE Failed(Call("read_do", 0, FALSE, FALSE, 0))
  /\ UNCHANGED <<args, ip_addr, raw_args, loc, vline, session, seen, units, coils, inv, hist>>
  /\ UNCHANGED lvars

\* main, lines 289-294
ReadAi ==
  /\ pc = "read_ai"
  /\ \E ok \in BOOLEAN :
       IF ok
       THEN /\ calls' = Append(calls, Call("read_ai", 0, FALSE, TRUE, 0))
            /\ outcome' = "ok"
            /\ pc' = "finally"
       ELSE Failed(Call("read_ai", 0, FALSE, FALSE, 0))
  /\ UNCHANGED <<args, ip_addr, raw_args, loc, vline, session, seen, units, coils, inv, hist>>
  /\ UNCHANGED lvars

\* main, lines 295-296
Close ==
  /\ pc = "finally"
  /\ session' = "closed"
  /\ calls' = Append(calls, Call("close", 0, FALSE, TRUE, 0))
  /\ pc' = "done"
  /\ UNCHANGED <<args, ip_addr, raw_args, loc, outcome, vline, seen, units, coils, inv, hist>>
  /\ UNCHANGED lvars

\* ------------------------------------------------ detached reopen unit ----
\* mutant: handle_reopen connects at once, without time.sleep(delay_seconds)
UnitStart_NoSleep(u) ==
  /\ units[u].pc = "spawned"
  /\ LET d == py_float(units[u].delay_str) IN
     units' = [units EXCEPT ![u] =
                 IF ~d.ok \/ float_le_zero(d)
                 THEN [@ EXCEPT !.pc = "done"]
                 ELSE [@ EXCEPT !.pc = "sleeping", !.remaining = 0]]
  /\ UNCHANGED <<args, pc, ip_addr, raw_args, loc, outcome, vline, session, calls, seen, coils, inv, hist>>
  /\ UNCHANGED lvars

\* main, lines 146-154, and handle_reopen up to time.sleep (line 127)
UnitStart(u) ==
  /\ units[u].pc = "spawned"
  /\ LET d == py_float(units[u].delay_str) IN
     units' = [units EXCEPT ![u] =
                 IF ~d.ok \/ float_le_zero(d)
                 THEN [@ EXCEPT !.pc = "done"]
                 ELSE [@ EXCEPT !.pc = "sleeping", !.remaining = SleepTicks(d)]]
  /\ UNCHANGED <<args, pc, ip_addr, raw_args, loc, outcome, vline, session, calls, seen, coils, inv, hist>>
  /\ UNCHANGED lvars

\* one second passes for every unit inside time.sleep
Tick ==
  /\ \E u \in DOMAIN units : units[u].pc = "sleeping" /\ units[u].remaining > 0
  /\ units' = [u \in DOMAIN units |->
                 IF units[u].pc = "sleeping" /\ units[u].remaining > 0
                 THEN [units[u] EXCEPT !.remaining = @ - 1, !.slept = @ + 1]
                 ELSE units[u]]
  /\ UNCHANGED <<args, pc, ip_addr, raw_args, loc, outcome, vline, session, calls, seen, coils, inv, hist>>
  /\ UNCHANGED lvars

\* handle_reopen, lines 132-139: the relays it is going to write
reopen_targets(relay_arg) ==
  IF relay_arg = t_all THEN <<1, 2, 3, 4>>
  ELSE IF ~py_int(relay_arg).ok THEN <<>>
  ELSE IF py_int(relay_arg).val < 1 \/ py_int(relay_arg).val > 4 THEN <<>>
  ELSE <<py_int(relay_arg).val>>

\* handle_reopen, lines 128-130, after the sleep has returned
UnitConnect(u) ==
  /\ units[u].pc = "sleeping"
  /\ units[u].remaining = 0
  /\ \E ok \in BOOLEAN :
       units' = [units EXCEPT ![u] =
         IF ok
         THEN [@ EXCEPT !.session = "connected",
                        !.calls = Append(@, Call("connect", 0, FALSE, TRUE, 0)),
                        !.todo = reopen_targets(units[u].relay_arg),
                        !.pc = IF reopen_targets(units[u].relay_arg) = <<>> THEN "finally" ELSE "writing"]
         ELSE [@ EXCEPT !.session = "created",
                        !.calls = Append(@, Call("connect", 0, FALSE, FALSE, 0)),
                        !.pc = "done"]]
  /\ UNCHANGED <<args, pc, ip_addr, raw_args, loc, outcome, vline, session, calls, seen, coils, inv, hist>>
  /\ UNCHANGED lvars

\* mutant: a failed reopen write is tried again
UnitWrite_Retry(u) ==
  /\ units[u].pc = "writing"
  /\ Len(units[u].calls) < 8
  /\ \E ok \in BOOLEAN :
       LET relay == Head(units[u].todo)
           c == Call("write", DO_BASE + (relay - 1), FALSE, ok, 0)
       IN IF ok
          THEN /\ coils' = [coils EXCEPT ![units[u].ip] = write_do(@, relay, FALSE)]
               /\ units' = [units EXCEPT ![u] =
                    [@ EXCEPT !.calls = Append(@, c),
                              !.todo = Tail(@),
                              !.pc = IF Len(units[u].todo) = 1 THEN "finally" ELSE "writing"]]
          ELSE /\ units' = [units EXCEPT ![u] =
                    [@ EXCEPT !.calls = Append(@, c)]]
               /\ UNCHANGED coils
  /\ UNCHANGED <<args, pc, ip_addr, raw_args, loc, outcome, vline, session, calls, seen, inv, hist>>
  /\ UNCHANGED lvars

\* handle_reopen, lines 134 and 139: write_do(c, relay, False); a failed
\* write raises out of handle_reopen through the finally block
UnitWrite(u) ==
  /\ units[u].pc = "writing"
  /\ \E ok \in BOOLEAN :
       LET relay == Head(units[u].todo)
           c == Call("write", DO_BASE + (relay - 1), FALSE, ok, 0)
       IN IF ok
          THEN /\ coils' = [coils EXCEPT ![units[u].ip] = write_do(@, relay, FALSE)]
               /\ units' = [units EXCEPT ![u] =
                    [@ EXCEPT !.calls = Append(@, c),
                              !.todo = Tail(@),
                              !.pc = IF Len(units[u].todo) = 1 THEN "finally" ELSE "writing"]]
          ELSE /\ units' = [units EXCEPT ![u] =
                    [@ EXCEPT !.calls = Append(@, c), !.raised = TRUE, !.pc = "finally"]]
               /\ UNCHANGED coils
  /\ UNCHANGED <<args, pc, ip_addr, raw_args, loc, outcome, vline, session, calls, seen, inv, hist>>
  /\ UNCHANGED lvars

\* handle_reopen, lines 140-141
UnitClose(u) ==
  /\ units[u].pc = "finally"
  /\ units' = [units EXCEPT ![u] =
       [@ EXCEPT !.session = "closed",
                 !.calls = Append(@, Call("close", 0, FALSE, TRUE, 0)),
                 !.pc = "done"]]
  /\ UNCHANGED <<args, pc, ip_addr, raw_args, loc, outcome, vline, session, calls, seen, coils, inv, hist>>
  /\ UNCHANGED lvars

UnitStep(u) == UnitStart(u) \/ UnitConnect(u) \/ UnitWrite(u) \/ UnitClose(u)

Unit == \E u \in DOMAIN units : UnitStep(u)

Next ==
  \/ ParseArgs
  \/ Connect
  \/ Dispatch
  \/ ReadAiOnly
  \/ ReadDiOnly
  \/ WriteAll
  \/ ParseGroup
  \/ WriteGroup
  \/ ScheduleReopen
  \/ ReadDo
  \/ ReadAi
  \/ Close
  \/ Unit
  \/ Tick

Spec == Init /\ [][Next]_vars

\* every step of the one-shot dispatcher
Main ==
  \/ ParseArgs \/ Connect \/ Dispatch \/ ReadAiOnly \/ ReadDiOnly \/ WriteAll
  \/ ParseGroup \/ WriteGroup \/ ScheduleReopen \/ ReadDo \/ ReadAi \/ Close

\* a unit id for every reopen one invocation can schedule
UnitIds == 1..MaxArgs

InitTimed ==
  /\ args \in TimedCommands
  /\ FreshInvocation
  /\ units = <<>>
  /\ coils = [e \in Endpoints |-> [a \in Addrs |-> FALSE]]
  /\ inv = 1
  /\ hist = <<>>
  /\ LoopFresh

\* The invoking process runs to its end, the clock advances, and a started
\* process (subprocess.Popen, line 112) is scheduled by the operating system
\* whether or not its parent is still alive.
SpecTimed ==
  /\ InitTimed
  /\ [][Next]_vars
  /\ WF_vars(Main)
  /\ WF_vars(Tick)
  /\ \A u \in UnitIds : WF_vars(u \in DOMAIN units /\ UnitStep(u))

\* the next invocation of the script, started once the previous one has ended
NewInvocation ==
  /\ pc = "done"
  /\ inv < MaxInvocations
  /\ args' \in RaceLater
  /\ hist' = Append(hist, [args |-> args, outcome |-> outcome])
  /\ inv' = inv + 1
  /\ pc' = "start"
  /\ ip_addr' = IP
  /\ raw_args' = <<>>
  /\ loc' = NoLoc
  /\ outcome' = "none"
  /\ vline' = 0
  /\ session' = "none"
  /\ calls' = <<>>
  /\ seen' = {}
  /\ UNCHANGED <<units, coils>>
  /\ UNCHANGED lvars

InitRace ==
  /\ args \in RaceFirst
  /\ FreshInvocation
  /\ units = <<>>
  /\ coils = [e \in Endpoints |-> [a \in Addrs |-> FALSE]]
  /\ inv = 1
  /\ hist = <<>>
  /\ LoopFresh

\* relay commands only: the read-only commands write no coil
NextRace ==
  \/ ParseArgs
  \/ Connect
  \/ Dispatch
  \/ WriteAll
  \/ ParseGroup
  \/ WriteGroup
  \/ ScheduleReopen
  \/ ReadDo
  \/ ReadAi
  \/ Close
  \/ Unit
  \/ Tick
  \/ NewInvocation

SpecRace == InitRace /\ [][NextRace]_vars

\* one invocation with a relay command
InitCommands ==
  /\ args \in Commands
  /\ FreshInvocation
  /\ units = <<>>
  /\ coils = [e \in Endpoints |-> [a \in Addrs |-> FALSE]]
  /\ inv = 1
  /\ hist = <<>>
  /\ LoopFresh

NextCommands ==
  \/ ParseArgs
  \/ Connect
  \/ Dispatch
  \/ WriteAll
  \/ ParseGroup
  \/ WriteGroup
  \/ ScheduleReopen
  \/ ReadDo
  \/ ReadAi
  \/ Close
  \/ Unit
  \/ Tick

SpecCommands == InitCommands /\ [][NextCommands]_vars

\* ---------------------------------------------------- poll-verify loop ----
\* time spent in the transport calls and the rendering of one cycle
WorkTimes == {3, 10, 12}

\* what read_coils may return: the device need not follow the writes
ReadBacks == {<<TRUE, TRUE, TRUE, TRUE>>, <<FALSE, FALSE, FALSE, FALSE>>, <<TRUE, FALSE, TRUE, TRUE>>}

LCall(op, ok) == [op |-> op, ok |-> ok]

\* write_do of the loop (lines 60-62): write_coil(DO_BASE + (ch - 1), state)
LWrite(ch_1_to_4, state, ok) == [op |-> "write", ok |-> ok, addr |-> DO_BASE + (ch_1_to_4 - 1), val |-> state]

\* main, line 117: desired_do = [toggle_state] * 4
desired_do == [r \in 1..4 |-> toggle_state]

\* main, lines 106-111
LoopConnect ==
  /\ lpc = "start"
  /\ \E ok \in BOOLEAN :
       IF ok
       THEN lsession' = "connected" /\ lpc' = "top" /\ next_poll' = now
       ELSE lsession' = "created" /\ lpc' = "exited" /\ UNCHANGED next_poll
  /\ UNCHANGED <<toggle_state, error_count, now, cycle, cyc, summary>>
  /\ UNCHANGED dvars

\* mutant: the error counter starts from zero in every cycle
Toggle_ResetCount ==
  /\ lpc = "top"
  /\ cycle < MaxCycles
  /\ toggle_state' = ~toggle_state
  /\ cycle' = cycle + 1
  /\ cyc' = [NoCycle EXCEPT !.k = 1, !.base = 0, !.prev = cyc.prev]
  /\ lpc' = "write"
  /\ error_count' = 0
  /\ UNCHANGED <<next_poll, now, lsession, summary>>
  /\ UNCHANGED dvars

\* mutant: after a cycle that raised, the same desired state is driven again
Toggle_RepeatAfterFault ==
  /\ lpc = "top"
  /\ cycle < MaxCycles
  /\ toggle_state' = IF cyc.prev \in {"exception", "verify_fail_exception"}
                     THEN toggle_state ELSE ~toggle_state
  /\ cycle' = cycle + 1
  /\ cyc' = [NoCycle EXCEPT !.k = 1, !.base = error_count, !.prev = cyc.prev]
  /\ lpc' = "write"
  /\ UNCHANGED <<error_count, next_poll, now, lsession, summary>>
  /\ UNCHANGED dvars

\* main, lines 113-117: top of a cycle
Toggle ==
  /\ lpc = "top"
  /\ cycle < MaxCycles
  /\ toggle_state' = ~toggle_state
  /\ cycle' = cycle + 1
  /\ cyc' = [NoCycle EXCEPT !.k = 1, !.base = error_count, !.prev = cyc.prev]
  /\ lpc' = "write"
  /\ UNCHANGED <<error_count, next_poll, now, lsession, summary>>
  /\ UNCHANGED dvars

\* mutant: the transport fault is counted but ends the loop
LoopRaise_Exit(call) ==
  /\ error_count' = error_count + 1
  /\ cyc' = [cyc EXCEPT !.calls = Append(@, call), !.slept = @ + EXCEPTION_PAUSE]
  /\ lpc' = "exited"

\* main, lines 154-158: a transport call raised inside the cycle's try block
LoopRaise(call) ==
  /\ error_count' = error_count + 1
  /\ cyc' = [cyc EXCEPT !.calls = Append(@, call), !.slept = @ + EXCEPTION_PAUSE]
  /\ lpc' = "pace"

\* mutant: a failed write is counted and the next write is issued all the same
LoopWrite_KeepGoing ==
  /\ lpc = "write"
  /\ \E ok \in BOOLEAN :
       /\ cyc' = [cyc EXCEPT !.calls = Append(@, LWrite(cyc.k, desired_do[cyc.k], ok)), !.k = @ + 1]
       /\ lpc' = IF cyc.k < 4 THEN "write" ELSE "verify"
       /\ error_count' = IF ok THEN error_count ELSE error_count + 1
  /\ UNCHANGED <<toggle_state, next_poll, now, lsession, cycle, summary>>
  /\ UNCHANGED dvars

\* main, lines 121-124: the k-th of the four writes
LoopWrite ==
  /\ lpc = "write"
  /\ \E ok \in BOOLEAN :
       IF ok
       THEN /\ cyc' = [cyc EXCEPT !.calls = Append(@, LWrite(cyc.k, desired_do[cyc.k], TRUE)), !.k = @ + 1]
            /\ lpc' = IF cyc.k < 4 THEN "write" ELSE "verify"
            /\ UNCHANGED error_count
       ELSE LoopRaise(LWrite(cyc.k, desired_do[cyc.k], FALSE))
  /\ UNCHANGED <<toggle_state, next_poll, now, lsession, cycle, summary>>
  /\ UNCHANGED dvars

\* mutant: a verification failure is reported but not counted
VerifyRead_NoCount ==
  /\ lpc = "verify"
  /\ \/ /\ LoopRaise(LCall("read_do", FALSE))
     \/ \E bits \in ReadBacks :
          LET c == LCall("read_do", TRUE)
          IN IF bits = desired_do
             THEN /\ cyc' = [cyc EXCEPT !.calls = Append(@, c), !.last = bits, !.attempt = @ + 1,
                                        !.reads = Append(@, bits), !.actual = <<bits>>,
                                        !.verified = TRUE]
                  /\ lpc' = "read_ai"
                  /\ UNCHANGED error_count
             ELSE IF cyc.attempt + 1 < VERIFY_RETRIES
             THEN /\ cyc' = [cyc EXCEPT !.calls = Append(@, c), !.last = bits, !.attempt = @ + 1,
                                        !.reads = Append(@, bits),
                                        !.slept = @ + VERIFY_RETRY_DELAY]
                  /\ lpc' = "verify"
                  /\ UNCHANGED error_count
             ELSE /\ cyc' = [cyc EXCEPT !.calls = Append(@, c), !.last = bits, !.attempt = @ + 1,
                                        !.reads = Append(@, bits), !.actual = <<bits>>,
                                        !.slept = @ + VERIFY_RETRY_DELAY]
                  /\ UNCHANGED error_count
                  /\ lpc' = "read_ai"
  /\ UNCHANGED <<toggle_state, next_poll, now, lsession, cycle, summary>>
  /\ UNCHANGED dvars

\* mutant: one read-back more than the retry budget
VerifyRead_ExtraRead ==
  /\ lpc = "verify"
  /\ \/ /\ LoopRaise(LCall("read_do", FALSE))
     \/ \E bits \in ReadBacks :
          LET c == LCall("read_do", TRUE)
          IN IF bits = desired_do
             THEN /\ cyc' = [cyc EXCEPT !.calls = Append(@, c), !.last = bits, !.attempt = @ + 1,
                                        !.reads = Append(@, bits), !.actual = <<bits>>,
                                        !.verified = TRUE]
                  /\ lpc' = "read_ai"
                  /\ UNCHANGED error_count
             ELSE IF cyc.attempt + 1 <= VERIFY_RETRIES
             THEN /\ cyc' = [cyc EXCEPT !.calls = Append(@, c), !.last = bits, !.attempt = @ + 1,
                                        !.reads = Append(@, bits),
                                        !.slept = @ + VERIFY_RETRY_DELAY]
                  /\ lpc' = "verify"
                  /\ UNCHANGED error_count
             ELSE /\ cyc' = [cyc EXCEPT !.calls = Append(@, c), !.last = bits, !.attempt = @ + 1,
                                        !.reads = Append(@, bits), !.actual = <<bits>>,
                                        !.slept = @ + VERIFY_RETRY_DELAY]
                  /\ error_count' = error_count + 1
                  /\ lpc' = "read_ai"
  /\ UNCHANGED <<toggle_state, next_poll, now, lsession, cycle, summary>>
  /\ UNCHANGED dvars

\* verify_expected, lines 77-82: one read-back; with main, lines 127-134, when
\* the retry budget is used up
VerifyRead ==
  /\ lpc = "verify"
  /\ \/ /\ LoopRaise(LCall("read_do", FALSE))
     \/ \E bits \in ReadBacks :
          LET c == LCall("read_do", TRUE)
          IN IF bits = desired_do
             THEN /\ cyc' = [cyc EXCEPT !.calls = Append(@, c), !.last = bits, !.attempt = @ + 1,
                                        !.reads = Append(@, bits), !.actual = <<bits>>,
                                        !.verified = TRUE]
                  /\ lpc' = "read_ai"
                  /\ UNCHANGED error_count
             ELSE IF cyc.attempt + 1 < VERIFY_RETRIES
             THEN /\ cyc' = [cyc EXCEPT !.calls = Append(@, c), !.last = bits, !.attempt = @ + 1,
                                        !.reads = Append(@, bits),
                                        !.slept = @ + VERIFY_RETRY_DELAY]
                  /\ lpc' = "verify"
                  /\ UNCHANGED error_count
             ELSE /\ cyc' = [cyc EXCEPT !.calls = Append(@, c), !.last = bits, !.attempt = @ + 1,
                                        !.reads = Append(@, bits), !.actual = <<bits>>,
                                        !.slept = @ + VERIFY_RETRY_DELAY]
                  /\ error_count' = error_count + 1
                  /\ lpc' = "read_ai"
  /\ UNCHANGED <<toggle_state, next_poll, now, lsession, cycle, summary>>
  /\ UNCHANGED dvars

\* main, lines 137-139
LoopReadAi ==
  /\ lpc = "read_ai"
  /\ \E ok \in BOOLEAN :
       IF ok
       THEN /\ cyc' = [cyc EXCEPT !.calls = Append(@, LCall("read_ai", TRUE))]
            /\ lpc' = "read_di"
            /\ UNCHANGED error_count
       ELSE LoopRaise(LCall("read_ai", FALSE))
  /\ UNCHANGED <<toggle_state, next_poll, now, lsession, cycle, summary>>
  /\ UNCHANGED dvars

\* main, lines 142-152: digital read and the two status lines
LoopReadDi ==
  /\ lpc = "read_di"
  /\ \E ok \in BOOLEAN :
       IF ok
       THEN /\ cyc' = [cyc EXCEPT !.calls = Append(@, LCall("read_di", TRUE)),
                                  !.calls = Append(@, LCall("two_line", TRUE))]
            /\ lpc' = "pace"
            /\ UNCHANGED error_count
       ELSE LoopRaise(LCall("read_di", FALSE))
  /\ UNCHANGED <<toggle_state, next_poll, now, lsession, cycle, summary>>
  /\ UNCHANGED dvars

\* how the cycle that has reached line 161 went
CycleOutcome ==
  LET raised == cyc.calls # <<>> /\ ~cyc.calls[Len(cyc.calls)].ok
      failed == cyc.actual # <<>> /\ ~cyc.verified
  IN IF raised /\ failed THEN "verify_fail_exception"
     ELSE IF raised THEN "exception"
     ELSE IF failed THEN "verify_fail"
     ELSE "ok"

\* mutant: the next tick is one period after the end of processing
Pace_FromNow ==
  /\ lpc = "pace"
  /\ \E work \in WorkTimes, gap \in {0, 1} :
       LET read_at == now + cyc.slept + work
           poll == read_at + POLL_SECONDS
           sleep_for == poll - read_at
       IN /\ cyc' = [NoCycle EXCEPT !.poll_before = next_poll, !.read_at = read_at, !.sleep_for = sleep_for,
                                    !.prev = CycleOutcome,
                                    !.pace_slept = IF sleep_for > 0 THEN sleep_for ELSE 0]
          /\ IF sleep_for > 0
             THEN now' = poll /\ next_poll' = poll
             ELSE now' = read_at + gap /\ next_poll' = read_at + gap
  /\ lpc' = "top"
  /\ UNCHANGED <<toggle_state, error_count, lsession, cycle, summary>>
  /\ UNCHANGED dvars

\* main, lines 161-166: keep the 1 Hz cadence
Pace ==
  /\ lpc = "pace"
  /\ \E work \in WorkTimes, gap \in {0, 1} :
       LET read_at == now + cyc.slept + work
           poll == next_poll + POLL_SECONDS
           sleep_for == poll - read_at
       IN /\ cyc' = [NoCycle EXCEPT !.poll_before = next_poll, !.read_at = read_at, !.sleep_for = sleep_for,
                                    !.prev = CycleOutcome,
                                    !.pace_slept = IF sleep_for > 0 THEN sleep_for ELSE 0]
          /\ IF sleep_for > 0
             THEN now' = poll /\ next_poll' = poll
             ELSE now' = read_at + gap /\ next_poll' = read_at + gap
  /\ lpc' = "top"
  /\ UNCHANGED <<toggle_state, error_count, lsession, cycle, summary>>
  /\ UNCHANGED dvars

\* main, lines 168-171: KeyboardInterrupt anywhere inside the outer try block
Interrupt ==
  /\ lpc \in {"top", "write", "verify", "read_ai", "read_di", "pace"}
  /\ lpc' = "stopped"
  /\ summary' = Append(summary, error_count)
  /\ lsession' = "closed"
  /\ UNCHANGED <<toggle_state, error_count, next_poll, now, cycle, cyc>>
  /\ UNCHANGED dvars

InitLoop ==
  /\ args = <<>>
  /\ FreshInvocation
  /\ units = <<>>
  /\ coils = [e \in Endpoints |-> [a \in Addrs |-> FALSE]]
  /\ inv = 1
  /\ hist = <<>>
  /\ LoopFresh

NextLoop ==
  \/ LoopConnect
  \/ Toggle
  \/ LoopWrite
  \/ VerifyRead
  \/ LoopReadAi
  \/ LoopReadDi
  \/ Pace
  \/ Interrupt

SpecLoop == InitLoop /\ [][NextLoop]_vars

\* ------------------------------------------------- observation helpers ----
Writes(cs) == SelectSeq(cs, LAMBDA c : c.op = "write")

Schedules(cs) == SelectSeq(cs, LAMBDA c : c.op = "schedule")

TransportCalls(cs) == SelectSeq(cs, LAMBDA c : c.op \in {"connect", "write", "read_do", "read_ai", "read_di"})

\* C1: whenever an invocation ends in Syntax Violation, it has issued no coil
\* write and scheduled no reopen unit (validation never partially applies).
C1_NoPartialApply ==
  outcome = "syntax" => Writes(calls) = <<>> /\ Schedules(calls) = <<>>

\* C2: whenever a command is rejected because a channel is out of range
\* (digital input at line 200, relay at line 283), no transport call, not even
\* connect, has been made before the rejection.
C2_RangeRejectedBeforeTransport ==
  (outcome = "syntax" /\ vline \in {200, 283}) => TransportCalls(calls) = <<>>

\* the invocation got past Dispatch with an open session
Dispatched == pc \notin {"start", "connect", "dispatch"} /\ session \in {"connected", "closed"}

\* (coil address, state) of every write in a call log
WriteTargets(cs) == [k \in 1..Len(Writes(cs)) |-> <<Writes(cs)[k].addr, Writes(cs)[k].val>>]

\* (coil address, state) of every group of a relay-pair sequence
GroupTargets(raw) ==
  [k \in 1..Len(relay_pairs(raw, 0)) |->
     <<DO_BASE + (relay_pairs(raw, 0)[k].relay_num - 1), relay_pairs(raw, 0)[k].closed>>]

DistinctRelays(raw) == {relay_pairs(raw, 0)[k].relay_num : k \in 1..Len(relay_pairs(raw, 0))}

\* C3 (as stated): a relay-pair sequence that ran to OK issued as many writes
\* as it targets distinct relays, in the order given.
C3_WritesEqualDistinctRelays ==
  (Dispatched /\ branch(raw_args) = "pairs" /\ outcome = "ok")
    => /\ Len(Writes(calls)) = Cardinality(DistinctRelays(raw_args))
       /\ WriteTargets(calls) = GroupTargets(raw_args)

\* C3 (amended): a relay-pair sequence that ran to OK issued exactly one write
\* per group, to the group's relay and with the group's state, in the order of
\* the groups; a relay named by several groups is written once per group.
C3_OneWritePerGroup ==
  (Dispatched /\ branch(raw_args) = "pairs" /\ outcome = "ok")
    => /\ WriteTargets(calls) = GroupTargets(raw_args)
       /\ \A k \in 1..Len(Writes(calls)) : Writes(calls)[k].ok
       /\ Len(Writes(calls)) >= Cardinality(DistinctRelays(raw_args))

\* a valid sequence that names one relay in two groups has run to OK
C3_Witness ==
  /\ pc = "done"
  /\ outcome = "ok"
  /\ branch(raw_args) = "pairs"
  /\ Len(Writes(calls)) = 2
  /\ Writes(calls)[1].addr = Writes(calls)[2].addr
  /\ Writes(calls)[1].val # Writes(calls)[2].val

\* the token shapes of a duration paired with "open"
DurOpenGroup(raw, i) ==
  \/ /\ i + 1 < Len(raw)
     /\ has_comma(raw[i + 1])
     /\ raw[i + 2] = t_open
  \/ /\ i + 2 < Len(raw)
     /\ ~has_comma(raw[i + 1])
     /\ isdigit(raw[i + 2])
     /\ raw[i + 3] = t_open

DurOpenAll(raw) ==
  \/ /\ Len(raw) >= 2
     /\ has_comma(raw[1])
     /\ raw[2] = t_open
  \/ /\ Len(raw) >= 3
     /\ raw[1] = t_all
     /\ isdigit(raw[2])
     /\ raw[3] = t_open

\* C4: a group (or the all-relays form) that pairs a duration with "open" is
\* rejected with Syntax Violation as soon as the parser handles it, whatever
\* the duration; no write and no reopen is ever issued for it.
C4_DurationOpenRejected ==
  /\ (Dispatched /\ branch(raw_args) = "all" /\ DurOpenAll(raw_args))
       => outcome = "syntax" /\ Writes(calls) = <<>> /\ units = <<>>
  /\ \A i \in seen :
       DurOpenGroup(raw_args, i)
         => /\ outcome = "syntax"
            /\ \A k \in 1..Len(calls) : calls[k].op \in {"write", "schedule"} => calls[k].at # i
            /\ \A u \in DOMAIN units : units[u].at # i

\* a later group of a multi-group sequence pairs a duration with "open": the
\* invocation has ended in Syntax Violation
C4_Witness ==
  /\ pc = "done"
  /\ outcome = "syntax"
  /\ vline = 281
  /\ \E i \in seen : i > 0 /\ DurOpenGroup(raw_args, i)

Lowered == [k \in 1..Len(args) |-> lower(strip(args[k]))]

LeadingToken == rstrip_comma(Lowered[1])

Consumed == raw_args = Tail(Lowered) /\ ip_addr = DigitsToNat(LeadingToken)

Kept == raw_args = Lowered /\ ip_addr = IP

\* C5 (as stated): the leading token is consumed as the endpoint exactly when
\* it is all digits with value > 4, without upper bound.
C5_OverrideIffAboveFour ==
  (pc # "start" /\ args # <<>>)
    => IF isdigit(LeadingToken) /\ DigitsToNat(LeadingToken) > 4 THEN Consumed ELSE Kept

\* C5 (amended): the leading token is consumed as the endpoint exactly when it
\* is all digits with 4 < value <= 255; a value above 255 is rejected with
\* Syntax Violation before any call; every other leading token is kept.
C5_OverrideIffInRange ==
  (pc # "start" /\ args # <<>>)
    => IF isdigit(LeadingToken) /\ DigitsToNat(LeadingToken) > 255
       THEN outcome = "syntax" /\ vline = 104 /\ calls = <<>> /\ ~Consumed
       ELSE IF isdigit(LeadingToken) /\ DigitsToNat(LeadingToken) > 4
       THEN Consumed /\ ~Kept
       ELSE Kept /\ ~Consumed

\* a leading 300 has been rejected
C5_Witness ==
  /\ pc = "done"
  /\ Len(args) >= 2
  /\ LeadingToken = t_300
  /\ outcome = "syntax"
  /\ calls = <<>>

\* C8: an invocation that created a session never ends with it unclosed.
C8_ClosedOnEveryExit ==
  (pc = "done" /\ session # "none") => session = "closed"

\* C9: a failed coil write is the last call of the invocation but for close():
\* no retry, no later write, no reopen scheduled, no read-back; the outcome is
\* the transport error, never OK.
C9_FailedWriteAborts ==
  /\ \A k \in 1..Len(calls) :
       (calls[k].op = "write" /\ ~calls[k].ok)
         => /\ outcome = "transport_error"
            /\ \A j \in (k + 1)..Len(calls) : calls[j].op = "close"
            /\ \A u \in DOMAIN units :
                 units[u].by = inv => branch(raw_args) = "pairs" /\ units[u].at < calls[k].at
  /\ Len(SelectSeq(units, LAMBDA x : x.by = inv)) = Len(Schedules(calls))

\* the write of a timed group failed while a further group was waiting
C9_Witness ==
  /\ pc = "done"
  /\ outcome = "transport_error"
  /\ branch(raw_args) = "pairs"
  /\ Len(Writes(calls)) = 1
  /\ ~Writes(calls)[1].ok
  /\ loc.i < Len(raw_args)
  /\ loc.dur # <<>>

\* the body is 'all,<d> closed'
TimedAllClosed ==
  /\ Dispatched
  /\ Len(raw_args) = 2
  /\ raw_args[1] \in {t_allc5, t_allc2}
  /\ raw_args[2] = t_closed

\* the <d> of 'all,<d>'
AllDelay == py_float(split_comma(raw_args[1])[2])

Ops(cs) == [k \in 1..Len(cs) |-> cs[k].op]

IsWrite(c, relay, state) == c.op = "write" /\ c.ok /\ c.addr = DO_BASE + (relay - 1) /\ c.val = state

AllOk(cs) == \A k \in 1..Len(cs) : cs[k].ok

\* the unit has opened relays 1..4 in channel order at the command's endpoint
ReopenedAll(u) ==
  /\ units[u].ip = ip_addr
  /\ Len(Writes(units[u].calls)) = 4
  /\ \A r \in 1..4 : IsWrite(Writes(units[u].calls)[r], r, FALSE)

C6_Safety ==
  TimedAllClosed =>
    /\ AllDelay.ok /\ ~float_le_zero(AllDelay)
    /\ Len(units) = Len(Schedules(calls))
    /\ \A k \in 1..Len(calls) :
         calls[k].op = "schedule"
           => k = 6 /\ Len(units) = 1 /\ \A r \in 1..4 : IsWrite(calls[1 + r], r, TRUE)
    /\ outcome = "ok"
         => /\ SubSeq(Ops(calls), 1, 8) =
                 <<"connect", "write", "write", "write", "write", "schedule", "read_do", "read_ai">>
            /\ Len(units) = 1
            /\ units[1].relay_arg = t_all
    /\ \A u \in DOMAIN units :
         /\ units[u].calls # <<>> => units[u].slept >= AllDelay.whole
         /\ \A k \in 1..Len(Writes(units[u].calls)) :
              Writes(units[u].calls)[k].addr = DO_BASE + (k - 1) /\ ~Writes(units[u].calls)[k].val
         /\ (units[u].pc = "done" /\ AllOk(units[u].calls)) => ReopenedAll(u)

C6_Live ==
  \A u \in UnitIds :
    (TimedAllClosed /\ u \in DOMAIN units)
      ~> (u \in DOMAIN units /\ units[u].pc = "done"
            /\ (~AllOk(units[u].calls) \/ ReopenedAll(u)))

\* C6: 'all,<d> closed': four close writes for relays 1..4 in order, then
\* exactly one reopen unit, scheduled only after the fourth write succeeded;
\* the unit never calls the device before d seconds of sleep, and if its
\* connect and writes succeed it eventually has written relays 1..4 open,
\* also when the invoking process has already ended.
C6_TimedCloseAll == []C6_Safety /\ C6_Live

\* the invoking process has ended with OK while its reopen unit, past its
\* sleep, is half way through opening the relays
C6_Witness ==
  /\ TimedAllClosed
  /\ pc = "done"
  /\ outcome = "ok"
  /\ Len(units) = 1
  /\ units[1].pc = "writing"
  /\ units[1].todo = <<3, 4>>
  /\ units[1].slept = 5
  /\ read_do(coils[ip_addr]) = <<FALSE, FALSE, TRUE, TRUE>>

\* the call a step appended to a call log, if any
Appended(old, new) == IF Len(new) = Len(old) + 1 THEN <<new[Len(new)]>> ELSE <<>>

\* every successful write of any session takes effect at once, whatever the
\* coil held and whoever wrote it before; nothing else changes a coil
WriteWins ==
  /\ \A c \in {x \in {Appended(calls, calls')} : x # <<>>} :
       (c[1].op = "write" /\ c[1].ok) => coils'[ip_addr][c[1].addr] = c[1].val
  /\ \A u \in DOMAIN units :
       \A c \in {x \in {Appended(units[u].calls, units'[u].calls)} : x # <<>>} :
         (c[1].op = "write" /\ c[1].ok) => coils'[units[u].ip][c[1].addr] = c[1].val
  /\ coils' # coils
       => \/ \E c \in {Appended(calls, calls')} : c # <<>> /\ c[1].op = "write" /\ c[1].ok /\ inv' = inv
          \/ \E u \in DOMAIN units :
               \E c \in {Appended(units[u].calls, units'[u].calls)} : c # <<>> /\ c[1].op = "write" /\ c[1].ok

\* no step of an invocation, and no new invocation, touches a started unit
NoCancel ==
  \A u \in DOMAIN units :
    /\ u \in DOMAIN units'
    /\ units'[u].ip = units[u].ip
    /\ units'[u].relay_arg = units[u].relay_arg
    /\ units'[u].delay_str = units[u].delay_str
    /\ (pc' # pc \/ inv' # inv \/ calls' # calls) => units'[u] = units[u]

\* a unit calls the device only after its own sleep, and one that ended with
\* every call successful has written each of its targets
UnitsOrdered ==
  \A u \in DOMAIN units :
    /\ units[u].calls # <<>> => units[u].slept >= py_float(units[u].delay_str).whole
    /\ (units[u].pc = "done" /\ units[u].calls # <<>> /\ AllOk(units[u].calls))
         => Len(Writes(units[u].calls)) = Len(reopen_targets(units[u].relay_arg))

\* C10: invocations and reopen units write the device without mutual
\* exclusion: every successful write takes effect when it is made (last write
\* wins), a unit is ordered only by its own sleep-then-write sequence, and a
\* pending reopen is never cancelled or altered by a later command.
C10_LastWriteWinsNoCancel == [][WriteWins /\ NoCancel]_vars /\ []UnitsOrdered

\* after '1,2 closed' and a later untimed '1 closed', both OK, the reopen of
\* the first command has opened relay 1 again
C10_Witness ==
  /\ inv = 2
  /\ hist[1].args = <<t_1c2, t_closed>>
  /\ hist[1].outcome = "ok"
  /\ args = <<t_1, t_closed>>
  /\ pc = "done"
  /\ outcome = "ok"
  /\ Len(units) = 1
  /\ units[1].pc = "done"
  /\ AllOk(units[1].calls)
  /\ ~coils[IP][DO_BASE]

\* calls of the current cycle
CycleCalls(op) == SelectSeq(cyc.calls, LAMBDA c : c.op = op)

\* all four writes succeeded and three read-backs, each successful, all
\* differed from the desired state
VerifyFailed ==
  /\ Len(CycleCalls("write")) = 4
  /\ AllOk(CycleCalls("write"))
  /\ Len(CycleCalls("read_do")) = VERIFY_RETRIES
  /\ AllOk(CycleCalls("read_do"))
  /\ ~cyc.verified

\* the analog or the digital read of the cycle failed
InputFault == ~AllOk(CycleCalls("read_ai")) \/ ~AllOk(CycleCalls("read_di"))

\* C7 (as stated): over a whole cycle whose verification failed, the error
\* counter increased by exactly one, whatever the remaining steps did.
C7_ExactlyOnePerCycle ==
  (lpc = "pace" /\ VerifyFailed) => error_count = cyc.base + 1

\* C7 (amended): a verification failure adds exactly one to the error counter
\* and is not retried (never more than VERIFY_RETRIES read-backs in a cycle):
\* the loop goes on to the analog and digital reads; over the whole cycle the
\* counter has increased by one if those reads succeed and by two if one of
\* them fails.
C7_VerifyFailureCountsOnce ==
  /\ Len(CycleCalls("read_do")) <= VERIFY_RETRIES
  /\ VerifyFailed
       => /\ lpc \in {"read_ai", "read_di", "pace", "stopped"}
          /\ error_count = cyc.base + 1 + (IF InputFault THEN 1 ELSE 0)

\* in the second cycle the verification failed and then the analog read failed
C7_Witness ==
  /\ lpc = "pace"
  /\ cycle = 2
  /\ VerifyFailed
  /\ ~AllOk(CycleCalls("read_ai"))
  /\ error_count = cyc.base + 2

\* ------------------------------------------------ loop state machine ----
\* RUNNING: every position inside "while True"
Running == lpc \in {"top", "write", "verify", "read_ai", "read_di", "pace"}

\* the step appended a failed transport call to the cycle's log
FaultStep ==
  /\ Len(cyc'.calls) = Len(cyc.calls) + 1
  /\ ~cyc'.calls[Len(cyc'.calls)].ok

\* C11: RUNNING is entered only by a successful connect and holds an open
\* session; a failed write, read-back, analog read or digital read leaves the
\* loop in RUNNING; the only step out of RUNNING is the interrupt, which
\* closes the session and prints the error count unchanged.
C11_OnlyInterruptTerminates ==
  [][ /\ Running => lsession = "connected"
      /\ (~Running /\ Running') => (lpc = "start" /\ lsession' = "connected")
      /\ FaultStep => (Running /\ Running' /\ lsession' = "connected")
      /\ (Running /\ ~Running')
           => /\ lpc' = "stopped"
              /\ lsession' = "closed"
              /\ error_count' = error_count
              /\ summary' = <<error_count>> ]_vars

\* the loop was interrupted right after a fault of the current cycle, having
\* survived an earlier fault as well
C11_Witness ==
  /\ lpc = "stopped"
  /\ lsession = "closed"
  /\ cycle >= 2
  /\ error_count >= 2
  /\ summary = <<error_count>>
  /\ cyc.calls # <<>>
  /\ ~cyc.calls[Len(cyc.calls)].ok

\* ---------------------------------------------------- grammar shapes ----
States == {t_open, t_closed}

\* 'all' or 'all,<seconds>' followed by the state literal and nothing else,
\* or 'all' '<seconds>' followed by the state literal and nothing else
ExactAllShape(raw) ==
  \/ /\ Len(raw) = 2
     /\ \/ raw[1] = t_all
        \/ /\ has_comma(raw[1])
           /\ split_comma(raw[1])[1] = t_all
           /\ py_float(split_comma(raw[1])[2]).ok
     /\ raw[2] \in States
  \/ /\ Len(raw) = 3
     /\ raw[1] = t_all
     /\ isdigit(raw[2])
     /\ raw[3] \in States

ReadShape(raw) ==
  \/ Len(raw) = 2 /\ raw[1] \in {t_ai, t_ai1, t_ai2} /\ raw[2] = t_read
  \/ Len(raw) = 3 /\ raw[1] = t_di /\ isdigit(raw[2]) /\ raw[3] = t_read

\* every token of the body belongs to a group the relay-pair grammar accepts
RECURSIVE PairsShape(_, _)
PairsShape(raw, i) ==
  IF i >= Len(raw) THEN TRUE
  ELSE group_at(raw, i).line = 0 /\ PairsShape(raw, group_at(raw, i).next)

Recognized(raw) ==
  \/ ReadShape(raw)
  \/ ExactAllShape(raw)
  \/ ~startswith_all(raw[1]) /\ PairsShape(raw, 0)

\* C12 (as stated): a body that matches none of the grammar shapes is never
\* written to a coil and ends in Syntax Violation; this covers a first token
\* that only begins with 'all' and tokens left over after the state literal
\* of the all-relays form.
C12_NeverGuesses ==
  (Dispatched /\ ~Recognized(raw_args))
    => /\ Writes(calls) = <<>>
       /\ pc = "done" => outcome = "syntax"

\* ------------------------------------------------ duration lookahead ----
\* the group being written starts with a channel token without a comma and
\* is followed by an all-digits token after which one more token remains
DigitsThenMore ==
  /\ loc.at + 2 < Len(raw_args)
  /\ isdigit(raw_args[loc.at + 2])

\* C13: in a relay-pair group whose channel token has no comma, the token
\* after the channel is a duration exactly when it is all digits and one more
\* token remains after it, and then the token after it is the state;
\* otherwise the token after the channel is the state.  With every transport
\* call succeeding, 7 1 closed ends OK at endpoint 7 with one write closing
\* relay 1 and no reopen; 3 5 closed ends OK at the default endpoint with one
\* write closing relay 3 and one reopen of relay 3 after 5 seconds; 3 5 is a
\* Syntax Violation on the state token, with no write.
C13_DurationLookahead ==
  /\ (pc \in {"write", "schedule"} /\ ~loc.all /\ ~has_comma(raw_args[loc.at + 1]))
       => /\ (loc.dur # <<>>) = DigitsThenMore
          /\ DigitsThenMore
               => /\ loc.dur = <<py_float(raw_args[loc.at + 2])>>
                  /\ loc.closed = (raw_args[loc.at + 3] = t_closed)
                  /\ loc.i = loc.at + 3
          /\ ~DigitsThenMore
               => /\ loc.closed = (raw_args[loc.at + 2] = t_closed)
                  /\ loc.i = loc.at + 2
  /\ (args = <<t_7, t_1, t_closed>> /\ pc = "done" /\ AllOk(calls))
       => /\ outcome = "ok"
          /\ ip_addr = 7
          /\ WriteTargets(calls) = <<<<DO_BASE, TRUE>>>>
          /\ Schedules(calls) = <<>>
          /\ units = <<>>
          /\ coils[7][DO_BASE]
          /\ ~coils[IP][DO_BASE]
  /\ (args = <<t_3, t_5, t_closed>> /\ pc = "done" /\ AllOk(calls))
       => /\ outcome = "ok"
          /\ ip_addr = IP
          /\ WriteTargets(calls) = <<<<DO_BASE + 2, TRUE>>>>
          /\ Len(Schedules(calls)) = 1
          /\ Len(units) = 1
          /\ units[1].ip = IP
          /\ units[1].relay_arg = t_3
          /\ py_float(units[1].delay_str) = py_float(t_5)
  /\ (args = <<t_3, t_5>> /\ pc = "done" /\ AllOk(calls))
       => /\ outcome = "syntax"
          /\ vline = 276
          /\ Writes(calls) = <<>>

\* 3 5 closed has ended OK and its reopen unit has slept 5 seconds and opened
\* relay 3 again
C13_Witness ==
  /\ args = <<t_3, t_5, t_closed>>
  /\ pc = "done"
  /\ outcome = "ok"
  /\ Len(units) = 1
  /\ units[1].pc = "done"
  /\ units[1].slept = 5
  /\ WriteTargets(units[1].calls) = <<<<DO_BASE + 2, FALSE>>>>
  /\ ~coils[IP][DO_BASE + 2]

\* ------------------------------------------------ writes, then report ----
\* n times "write"
WriteOps(n) == [k \in 1..n |-> "write"]

\* C14: a relay-setting command that reports OK has made, after connect,
\* one or more coil writes, then exactly one read of the relay coils, then
\* exactly one read of the analog registers, every call succeeding and no
\* write after the reads; 3 open, with every transport call succeeding, is
\* one write of FALSE to coil DO_BASE + 2, the 4-state relay read, the analog
\* read and OK.
C14_WritesThenReadBack ==
  /\ (Dispatched /\ branch(raw_args) \in {"all", "pairs"} /\ outcome = "ok")
       => /\ Len(Writes(calls)) >= 1
          /\ Ops(TransportCalls(calls))
               = <<"connect">> \o WriteOps(Len(Writes(calls))) \o <<"read_do", "read_ai">>
          /\ AllOk(TransportCalls(calls))
          /\ \A k \in 1..Len(calls) : calls[k].op = "read_do" => Len(calls[k].bits) = 4
  /\ (args = <<t_3, t_open>> /\ pc = "done" /\ AllOk(calls))
       => /\ outcome = "ok"
          /\ Ops(calls) = <<"connect", "write", "read_do", "read_ai", "close">>
          /\ calls[2].addr = DO_BASE + 2
          /\ calls[2].val = FALSE
          /\ Len(calls[3].bits) = 4
          /\ units = <<>>

\* 3 open has reported OK
C14_Witness ==
  /\ args = <<t_3, t_open>>
  /\ pc = "done"
  /\ outcome = "ok"
  /\ Len(Writes(calls)) = 1
  /\ Ops(calls)[Len(calls)] = "close"

\* ------------------------------------------------ detached reopen unit ----
\* the relays a reopen of this target is to open
Targets(u) ==
  IF units[u].relay_arg = t_all THEN <<1, 2, 3, 4>> ELSE <<py_int(units[u].relay_arg).val>>

Connects(cs) == SelectSeq(cs, LAMBDA c : c.op = "connect")

C15_Safety ==
  \A u \in DOMAIN units :
    LET cs == units[u].calls
        w == Writes(cs)
        d == py_float(units[u].delay_str)
    IN /\ Len(Connects(cs)) <= 1
       /\ cs # <<>>
            => /\ cs[1].op = "connect"
               /\ d.ok
               /\ units[u].slept = SleepTicks(d)
       /\ (cs # <<>> /\ ~cs[1].ok)
            => /\ Len(cs) = 1
               /\ ~units[u].raised
               /\ units[u].pc = "done"
       /\ Len(w) <= Len(Targets(u))
       /\ \A k \in 1..Len(w) :
            /\ w[k].addr = DO_BASE + (Targets(u)[k] - 1)
            /\ w[k].val = FALSE
            /\ k < Len(w) => w[k].ok
       /\ units[u].raised = (w # <<>> /\ ~w[Len(w)].ok)
       /\ (units[u].pc = "done" /\ cs # <<>> /\ cs[1].ok)
            => /\ units[u].session = "closed"
               /\ cs[Len(cs)].op = "close"
               /\ Len(SelectSeq(cs, LAMBDA c : c.op = "close")) = 1
               /\ AllOk(w) => Len(w) = Len(Targets(u))

C15_Live ==
  \A u \in UnitIds :
    (u \in DOMAIN units) ~> (u \in DOMAIN units /\ units[u].pc = "done")

\* C15: a reopen unit connects at most once, and only after its whole sleep;
\* after a failed connect it makes no further call, raises nothing and has
\* ended; after a successful connect it writes open (FALSE) to its target
\* relays in order (1..4 for 'all', the one relay otherwise), each at most
\* once, a failed write being its last write, and it closes its session
\* exactly once; every started unit eventually ends.
C15_FireAndForget == []C15_Safety /\ C15_Live

\* a reopen of all relays has opened relays 1 and 2, failed on relay 3, and
\* ended with its session closed and relays 3 and 4 left closed
C15_Witness ==
  /\ Len(units) = 1
  /\ units[1].relay_arg = t_all
  /\ units[1].pc = "done"
  /\ units[1].session = "closed"
  /\ units[1].raised
  /\ Len(Writes(units[1].calls)) = 3
  /\ ~Writes(units[1].calls)[3].ok
  /\ ~coils[units[1].ip][DO_BASE]
  /\ coils[units[1].ip][DO_BASE + 3]

\* ------------------------------------------------ cycle-level exception ----
\* a transport call of the current cycle failed
Raised == cyc.calls # <<>> /\ ~cyc.calls[Len(cyc.calls)].ok

\* the verification of the current cycle returned a failure
DeclaredFailure == cyc.actual # <<>> /\ ~cyc.verified

C16_Safety ==
  /\ \A k \in 1..(Len(cyc.calls) - 1) : cyc.calls[k].ok
  /\ Raised
       => /\ lpc \in {"pace", "stopped"}
          /\ error_count = cyc.base + 1 + (IF DeclaredFailure THEN 1 ELSE 0)
          /\ cyc.slept >= EXCEPTION_PAUSE
          /\ CycleCalls("two_line") = <<>>
          /\ ~AllOk(CycleCalls("write"))
               => /\ Len(CycleCalls("write")) <= 4
                  /\ Len(cyc.calls) = Len(CycleCalls("write"))
                  /\ cyc.actual = <<>>
          /\ ~AllOk(CycleCalls("read_do"))
               => CycleCalls("read_ai") = <<>> /\ CycleCalls("read_di") = <<>>
          /\ ~AllOk(CycleCalls("read_ai")) => CycleCalls("read_di") = <<>>

C16_Steps ==
  [][ /\ (lpc = "pace" /\ lpc' = "top")
           => /\ toggle_state' = toggle_state
              /\ error_count' = error_count
              /\ cycle' = cycle
              /\ Raised = (cyc'.prev \in {"exception", "verify_fail_exception"})
      /\ (lpc = "top" /\ lpc' = "write")
           => /\ toggle_state' = ~toggle_state
              /\ error_count' = error_count
              /\ cyc'.calls = <<>>
              /\ cyc'.k = 1
              /\ cyc'.base = error_count ]_vars

\* C16: a failed transport call is the last call of its cycle (later writes,
\* verification, input reads and the status render are skipped), it adds one
\* to the error counter and pauses; the loop then goes through the pacing
\* code to the top of the next cycle, which flips toggle_state and starts
\* with the first write as after any other cycle.
C16_FaultSkipsRestOfCycle == []C16_Safety /\ C16_Steps

\* after a cycle that raised, cycle 2 drove relays 1 and 2 to the toggled
\* state and then failed on the third write
C16_Witness ==
  /\ lpc = "pace"
  /\ cycle = 2
  /\ cyc.prev = "exception"
  /\ ~toggle_state
  /\ Len(cyc.calls) = 3
  /\ cyc.calls[1].ok /\ cyc.calls[2].ok /\ ~cyc.calls[3].ok
  /\ cyc.calls[3].op = "write"
  /\ cyc.calls[3].addr = DO_BASE + 2
  /\ cyc.calls[1].val = FALSE
  /\ error_count = 2

\* ------------------------------------------------------ error counter ----
\* every call of the cycle succeeded and the verification passed
CleanCycle == lpc = "pace" /\ AllOk(cyc.calls) /\ cyc.verified /\ CycleCalls("two_line") # <<>>

C17_Safety ==
  /\ error_count >= 0
  /\ lpc = "start" => error_count = 0
  /\ cycle = 0 => error_count = 0
  /\ CleanCycle => error_count = cyc.base

\* C17: error_count is 0 until the first cycle, no step decreases it, and a
\* cycle whose writes, verification and input reads all succeed leaves it as
\* it was when the cycle started.
C17_Monotone == []C17_Safety /\ [][error_count' >= error_count]_vars

\* a clean second cycle has kept the error counted in the first cycle
C17_Witness ==
  /\ CleanCycle
  /\ cycle = 2
  /\ cyc.base = 1
  /\ error_count = 1

\* ------------------------------------------------------- retry budget ----
Differs(k) == cyc.reads[k] # desired_do

\* C18: a cycle makes at most VERIFY_RETRIES read-backs; every read-back but
\* the last differed from the desired values; the verification succeeds
\* exactly when the last read-back equals them, fails exactly when
\* VERIFY_RETRIES read-backs were made and all differ, and reports the last
\* read-back as 'actual'.
C18_RetryBudget ==
  /\ Len(cyc.reads) <= VERIFY_RETRIES
  /\ Len(CycleCalls("read_do")) <= VERIFY_RETRIES
  /\ \A k \in 1..(Len(cyc.reads) - 1) : Differs(k)
  /\ cyc.verified = (cyc.reads # <<>> /\ ~Differs(Len(cyc.reads)))
  /\ DeclaredFailure = (Len(cyc.reads) = VERIFY_RETRIES /\ \A k \in 1..VERIFY_RETRIES : Differs(k))
  /\ cyc.actual # <<>> => cyc.actual = <<cyc.reads[Len(cyc.reads)]>>
  /\ cyc.verified => cyc.actual # <<>>
  /\ lpc = "verify" => (cyc.actual = <<>> /\ Len(cyc.reads) < VERIFY_RETRIES)
  /\ lpc \in {"read_ai", "read_di"} => cyc.actual # <<>>

\* three read-backs, not all alike, all differed from the desired values and
\* the last one is reported
C18_Witness ==
  /\ DeclaredFailure
  /\ Len(cyc.reads) = 3
  /\ cyc.reads[2] # cyc.reads[3]
  /\ cyc.actual = <<cyc.reads[3]>>
  /\ lpc = "read_ai"

\* ------------------------------------------------------------- toggle ----
C19_Safety ==
  /\ toggle_state = (cycle % 2 = 1)
  /\ \A k \in 1..Len(CycleCalls("write")) :
       /\ CycleCalls("write")[k].val = toggle_state
       /\ CycleCalls("write")[k].addr = DO_BASE + (k - 1)
  /\ Len(CycleCalls("write")) <= 4

C19_Steps ==
  [][ /\ toggle_state' # toggle_state => (lpc = "top" /\ lpc' = "write")
      /\ cycle' # cycle => (cycle' = cycle + 1 /\ toggle_state' = ~toggle_state)
      /\ (lpc = "top" /\ lpc' = "write") => cycle' = cycle + 1 ]_vars

\* C19: toggle_state changes only at the top of a cycle and is flipped there
\* once, whatever the previous cycle did; in cycle n the desired state is
\* closed (TRUE) iff n is odd, and the writes of a cycle go to relays 1..4 in
\* order, all with that value.
C19_TogglePerCycle == []C19_Safety /\ C19_Steps

\* cycle 3, after a cycle whose verification failed and whose analog read
\* raised, has written TRUE to all four relays
C19_Witness ==
  /\ cycle = 3
  /\ cyc.prev = "verify_fail_exception"
  /\ lpc = "verify"
  /\ toggle_state
  /\ Len(CycleCalls("write")) = 4
  /\ AllOk(cyc.calls)

\* ------------------------------------------------------------- pacing ----
\* the pacing code of a cycle has just run
Paced == lpc = "top" /\ cycle >= 1

\* C20: after the pacing code, with poll = the previous boundary plus one
\* period and sleep_for = poll minus the time read at line 162: when
\* sleep_for > 0 the loop has slept exactly sleep_for and next_poll = poll,
\* whatever the processing took; otherwise it has not slept and next_poll
\* is the time read at line 166.  Every cycle starts with next_poll = now.
C20_TickScheduling ==
  /\ lpc = "top" => next_poll = now
  /\ Paced
       => /\ cyc.sleep_for = cyc.poll_before + POLL_SECONDS - cyc.read_at
          /\ cyc.sleep_for > 0
               => /\ cyc.pace_slept = cyc.sleep_for
                  /\ next_poll = cyc.poll_before + POLL_SECONDS
                  /\ now = cyc.read_at + cyc.pace_slept
          /\ cyc.sleep_for <= 0
               => /\ cyc.pace_slept = 0
                  /\ next_poll = now
                  /\ now >= cyc.read_at
                  /\ now >= cyc.poll_before + POLL_SECONDS

\* the second cycle ran past its boundary: no sleep, and next_poll is the
\* time read after the boundary was missed
C20_Witness ==
  /\ Paced
  /\ cycle = 2
  /\ cyc.sleep_for < 0
  /\ cyc.pace_slept = 0
  /\ next_poll = cyc.read_at + 1
  /\ next_poll > cyc.poll_before + POLL_SECONDS
  /\ cyc.poll_before = POLL_SECONDS

====
